---- MODULE Spec2Model ----
(***************************************************************************)
(* TTSService (api/src/services/tts_service.py): the streaming synthesis   *)
(* pipeline.  Every request is one run of generate_audio_stream, driven    *)
(* either by a streaming caller or by generate_audio.  Requests interleave *)
(* at their suspension points (await, async for, yield) and share only     *)
(* the class-level semaphore and the scratch directory.                    *)
(***************************************************************************)
EXTENDS Integers, Sequences, FiniteSets, TLC

\* ------------------------------------------------------------------ sizes

\* asyncio.Semaphore(4): the capacity of TTSService._chunk_semaphore.
N == 4

\* Requests in flight in the load scenario.
NumReq == 5

\* Longest segment sequence smart_split yields in the detailed scenario.
MaxSegs == 3

\* Most sub-chunks the text-native backend streams for one segment.
MaxSub == 2

Requests == 1..NumReq

\* ------------------------------------------------------------ input values

NoFormat == "none"
Wav == "wav"

KokoroV1 == "KokoroV1"
Legacy == "legacy"

\* A segment (chunk_text, tokens) of smart_split, by what the collaborators do
\* with its text:
\*   EmptySeg  neither text nor tokens
\*   Plain     the model gives one piece of audio, which encodes
\*   Long      the text-native backend streams MaxSub sub-chunks, which encode
\*   Bad       the model raises (the text-native backend after one sub-chunk)
\*   Silent    the model gives None (the legacy backend: or an empty buffer)
\*   Unenc     as Long, but convert_audio raises on the first piece of audio
\*   Broken    smart_split raises instead of yielding the segment
EmptySeg == "empty"
Plain == "plain"
Long == "long"
Bad == "bad"
Silent == "silent"
Unenc == "unenc"
Broken == "broken"

SegmentKinds == {EmptySeg, Plain, Long, Bad, Silent, Unenc, Broken}

Repeat(x, n) == [k \in 1..n |-> x]

\* What model_manager.generate does on a segment: the legacy backend returns
\* once (audio, None, or it raises); the text-native backend is an async
\* generator that yields and then ends or raises.
ModelScript(kind, backend) ==
    IF backend = Legacy
    THEN IF kind = Bad THEN <<"raise">>
         ELSE IF kind = Silent THEN <<"none">>
         ELSE <<"audio">>
    ELSE IF kind = Bad THEN <<"audio", "raise">>
         ELSE IF kind = Silent THEN <<"none", "end">>
         ELSE IF kind \in {Long, Unenc} THEN Repeat("audio", MaxSub) \o <<"end">>
         ELSE <<"audio", "end">>

\* Whether convert_audio succeeds on the `sub`-th piece the model gave for a
\* segment: not on None, not on the first piece of an Unenc segment.
Encodable(kind, sub) == ~(kind = Silent \/ (kind = Unenc /\ sub = 1))

\* ----------------------------------------------------------- voice resolver

\* Voices the voice manager has a path for, and their embeddings.
KnownVoices == {<<"a">>, <<"b">>}

Embedding(name) == IF name = <<"a">> THEN <<2, 4>> ELSE <<6, 0>>

\* voice_manager.get_voice_path(v): a path, or <<>> (None) for an unknown name.
VoiceManagerPath(name) == IF name \in KnownVoices THEN <<"voices">> \o name ELSE <<>>

IsSpace(c) == c = " "

RECURSIVE LStrip(_)
LStrip(s) == IF s # <<>> /\ IsSpace(Head(s)) THEN LStrip(Tail(s)) ELSE s

RECURSIVE RStrip(_)
RStrip(s) ==
    IF s # <<>> /\ IsSpace(s[Len(s)]) THEN RStrip(SubSeq(s, 1, Len(s) - 1)) ELSE s

\* str.strip()
Strip(s) == RStrip(LStrip(s))

\* voice.split("+"): the pieces between the '+' signs, empty pieces included.
RECURSIVE SplitPlus(_)
SplitPlus(s) ==
    IF s = <<>> THEN << <<>> >>
    ELSE LET rest == SplitPlus(Tail(s))
         IN  IF Head(s) = "+" THEN << <<>> >> \o rest
             ELSE << <<Head(s)>> \o Head(rest) >> \o Tail(rest)

\* [v.strip() for v in voice.split("+") if v.strip()]
RECURSIVE StripAll(_)
StripAll(parts) ==
    IF parts = <<>> THEN <<>>
    ELSE LET v == Strip(Head(parts))
         IN  (IF v # <<>> THEN <<v>> ELSE <<>>) \o StripAll(Tail(parts))

VoiceNames(voice) == StripAll(SplitPlus(voice))

\* "+" in voice
HasPlusNever(voice) == FALSE

HasPlus(voice) == \E k \in 1..Len(voice) : voice[k] = "+"

RECURSIVE SumTensors(_)
SumTensors(ts) ==
    IF Len(ts) = 1 THEN Head(ts)
    ELSE LET rest == SumTensors(Tail(ts))
         IN  [k \in 1..Len(Head(ts)) |-> Head(ts)[k] + rest[k]]

\* torch.mean(torch.stack(voice_tensors), dim=0)
FirstTensor(ts) == Head(ts)

MeanTensor(ts) == LET s == SumTensors(ts) IN [k \in 1..Len(s) |-> s[k] \div Len(ts)]

NoTensor == <<>>

\* _get_voice_path without its two `if not path: raise`.
GetVoicePathUnchecked(voice) ==
    IF HasPlus(voice)
    THEN LET voices == VoiceNames(voice)
         IN  IF Len(voices) < 2
             THEN [ok |-> TRUE, error |-> "", name |-> voice, path |-> <<"tmp">> \o voice,
                   saved |-> <<0, 0>>]
             ELSE [ok |-> TRUE, error |-> "", name |-> voice,
                   path |-> <<"tmp">> \o voice,
                   saved |-> MeanTensor([k \in 1..Len(voices) |-> Embedding(voices[k])])]
    ELSE [ok |-> TRUE, error |-> "", name |-> voice,
          path |-> VoiceManagerPath(voice), saved |-> NoTensor]

\* _get_voice_path(voice): what it returns or raises, and what it saves.
GetVoicePath(voice) ==
    IF HasPlus(voice)
    THEN LET voices == VoiceNames(voice)
         IN  IF Len(voices) < 2
             THEN [ok |-> FALSE, error |-> "InvalidVoiceSpec", name |-> <<>>,
                   path |-> <<>>, saved |-> NoTensor]
             ELSE IF \E k \in 1..Len(voices) : VoiceManagerPath(voices[k]) = <<>>
             THEN [ok |-> FALSE, error |-> "VoiceNotFound", name |-> <<>>,
                   path |-> <<>>, saved |-> NoTensor]
             ELSE [ok |-> TRUE, error |-> "", name |-> voice,
                   path |-> <<"tmp">> \o voice,
                   saved |-> MeanTensor([k \in 1..Len(voices) |-> Embedding(voices[k])])]
    ELSE IF VoiceManagerPath(voice) = <<>>
         THEN [ok |-> FALSE, error |-> "VoiceNotFound", name |-> <<>>,
               path |-> <<>>, saved |-> NoTensor]
         ELSE [ok |-> TRUE, error |-> "", name |-> voice,
               path |-> VoiceManagerPath(voice), saved |-> NoTensor]

\* The names _get_voice_path passes to voice_manager.get_voice_path, in order:
\* none when the combined spec is invalid, the names of a combined spec up to
\* the first one without a path, or the spec itself when it has no '+'.
RECURSIVE LookupsUntilMissing(_)
LookupsUntilMissing(voices) ==
    IF voices = <<>> THEN <<>>
    ELSE IF VoiceManagerPath(Head(voices)) = <<>> THEN <<Head(voices)>>
    ELSE <<Head(voices)>> \o LookupsUntilMissing(Tail(voices))

VoiceLookups(voice) ==
    IF HasPlus(voice)
    THEN LET voices == VoiceNames(voice)
         IN  IF Len(voices) < 2 THEN <<>> ELSE LookupsUntilMissing(voices)
    ELSE <<voice>>

\* ------------------------------------------------------------ audio values

\* One raw sample of the audio the model produced for sub-chunk `sub` of
\* segment `seg`.
Sample(seg, sub) == [t |-> "f32", seg |-> seg, sub |-> sub]

\* The model's raw audio for one (sub-)chunk: a 1-D float array.
RawAudio(seg, sub) == <<Sample(seg, sub)>>

\* np.array([0], dtype=np.float32): the dummy data of the finalization call.
DummyAudio == <<Sample(0, 0)>>

\* AudioService.convert_audio(samples, 24000, format, is_first_chunk, normalizer,
\* is_last_chunk): container framing on the first chunk, the close on the last.
ConvertAudio(samples, is_first_chunk, is_last_chunk) ==
    (IF is_first_chunk THEN <<[t |-> "hdr", seg |-> 0, sub |-> 0]>> ELSE <<>>)
    \o [k \in 1..Len(samples) |-> [samples[k] EXCEPT !.t = "pcm"]]
    \o (IF is_last_chunk THEN <<[t |-> "trl", seg |-> 0, sub |-> 0]>> ELSE <<>>)

\* A unit handed to the caller: its payload, and the call that produced it
\* (the segment's position, 0 for the finalization call, and the call's flags).
Unit(seg, first, last, type, data) ==
    [seg |-> seg, first |-> first, last |-> last, type |-> type, data |-> data]

\* ndarray.ndim: every array of the pipeline is 1-D, the empty marker
\* np.array([], dtype=np.float32) included.
Ndim(unit) == 1

RECURSIVE Concatenate(_)
Concatenate(chunks) ==
    IF chunks = <<>> THEN <<>> ELSE Head(chunks).data \o Concatenate(Tail(chunks))

\* ------------------------------------------------------------ the code's tests

\* asyncio.Semaphore: acquire goes through while the value is positive.
CanAcquireUnguarded(value) == TRUE

CanAcquire(value) == value > 0

\* is_first=(chunk_index == 0)
IsFirst(ci) == ci = 0

\* if chunk_index > 0: finalize
ShouldFinalizeAlways(ci) == ci >= 0

ShouldFinalizeOffByOne(ci) == ci > 1

ShouldFinalize(ci) == ci > 0

\* The position of the segment the traversal of smart_split hands out after
\* `n` segments were read out of `len`.
SegmentNoReversed(n, len) == len - n

SegmentNo(n, len) == n + 1

\* except Exception: the handlers of _process_chunk and generate_audio_stream
\* catch the Exception subclasses the collaborators raise.
ExceptionClasses == {"RuntimeError", "ValueError", "AttributeError"}

CatchesNothing(cls) == FALSE

CatchesException(cls) == cls \in ExceptionClasses

\* After convert_audio raised on a chunk and the handler around it logged it:
\* the text-native branch is inside `async for` over the model's sub-chunks and
\* goes on with the next one; the legacy branch has nothing left to do.
LoopAborts(backend) == FALSE

LoopContinues(backend) == backend = KokoroV1

\* Semaphore.release(): the value goes up by one.
ReleaseNothing(value) == value

Release(value) == value + 1

\* `async with self._chunk_semaphore`: __aexit__ releases however the block is
\* left: by a return or the end of the body ("return"), by an exception
\* passing through ("Exception"), or by the GeneratorExit thrown in at a yield
\* when the suspended generator is closed ("GeneratorExit").
ReleasesOnErrorOnly(exit) == exit # "return"

ReleasesUnlessClosed(exit) == exit # "GeneratorExit"

ReleasesOn(exit) == TRUE

\* generate_audio calls generate_audio_stream(text, voice, speed): the format
\* is the default of the parameter, "wav".
\* stream_normalizer = AudioNormalizer(): a new object in every run of
\* generate_audio_stream, named here by the request that made it.
SharedNormalizer(r) == 1

NewNormalizer(r) == r

NoNormalizer == [id |-> 0, uses |-> <<>>]

StreamFormat(request) ==
    IF request.caller = "generate_audio" THEN Wav ELSE request.output_format

NoResult == [status |-> "none", error |-> "", type |-> "", data |-> <<>>]

Raised(error) == [status |-> "raised", error |-> error, type |-> "", data |-> <<>>]

Returned(type, data) == [status |-> "returned", error |-> "", type |-> type, data |-> data]

GenerateAudioNoEmptyCheck(chunks) ==
    IF Len(chunks) = 1 THEN Returned(chunks[1].type, chunks[1].data)
    ELSE IF \E k \in 1..Len(chunks) : chunks[k].type = "bytes"
    THEN Raised("AttributeError")
    ELSE Returned("ndarray", Concatenate(chunks))

\* generate_audio, after the stream ended normally with `chunks` collected.
GenerateAudio(chunks) ==
    IF chunks = <<>> THEN Raised("ValueError")
    ELSE IF Len(chunks) = 1 THEN Returned(chunks[1].type, chunks[1].data)
    \* [c for c in chunks if c.ndim > 0]: bytes has no attribute ndim
    ELSE IF \E k \in 1..Len(chunks) : chunks[k].type = "bytes"
    THEN Raised("AttributeError")
    ELSE LET valid_chunks == SelectSeq(chunks, LAMBDA c : Ndim(c) > 0)
         IN  IF valid_chunks = <<>> THEN Raised("ValueError")
             ELSE Returned("ndarray", Concatenate(valid_chunks))

\* -------------------------------------------------------------------- state

VARIABLES
    req,          \* the requests: caller, text (its segments), voice, output_format, backend
    pc,           \* where each request's coroutine is suspended
    permits,      \* TTSService._chunk_semaphore: its value
    voice_res,    \* (voice_name, voice_path) of each request
    scratch,      \* the combined voices saved in the temporary directory
    idx,          \* segments each request has read from smart_split
    chunk_index,  \* generate_audio_stream's chunk_index
    call,         \* the _process_chunk call in progress: segment, flags, sub-chunks so far
    emitted,      \* the units each request has yielded to its caller
    normalizer,   \* each request's stream_normalizer, and the convert_audio calls
                  \* it was passed to: the normalizer passed and the call's segment
    raised,       \* the calls whose body raised into _process_chunk's handler
    calls,        \* the calls each request has made, by segment position, in order
    holds,        \* `async with` blocks of each request entered and not yet left
    lookups,      \* the names each request passed to voice_manager.get_voice_path
    err,          \* the exception generate_audio_stream raised to its caller
    result        \* what generate_audio returned or raised

vars == <<req, pc, permits, voice_res, scratch, idx, chunk_index, call, emitted,
          normalizer, raised, calls, holds, lookups, err, result>>

OffRequest ==
    [caller |-> "off", text |-> <<>>, voice |-> <<>>, output_format |-> NoFormat,
     backend |-> Legacy]

NoCall == [seg |-> 0, is_first |-> FALSE, is_last |-> FALSE, sub |-> 0]

NoVoice == [name |-> <<>>, path |-> <<>>]

\* The texts of the detailed scenario: up to MaxSegs segments of any kind (a
\* Long segment is a Plain one to the legacy backend).
RECURSIVE TextsOfLen(_, _)
TextsOfLen(n, kinds) ==
    IF n = 0 THEN {<<>>}
    ELSE {<<k>> \o t : k \in kinds, t \in TextsOfLen(n - 1, kinds)}

\* The texts of a backend: every kind of segment in the texts shorter than
\* MaxSegs, and the kinds that succeed or make the model raise in the longest.
Texts(backend) ==
    LET kinds == IF backend = Legacy THEN SegmentKinds \ {Long} ELSE SegmentKinds
    IN  UNION {TextsOfLen(n, kinds) : n \in 0..(MaxSegs - 1)}
           \cup TextsOfLen(MaxSegs, kinds \cap {Plain, Long, Bad})

ShortTexts == {<<>>, <<Plain>>}

VoiceSpecs ==
    { <<"a">>, <<"a", "+", "b">>, <<"b", "+", "a">>,
      <<"a", "+">>, <<"+", "b">>, <<"+">>, <<"x">>, <<"a", "+", "x">>,
      <<"a", "+", " ">>, <<"a", " ", "+", "b">> }

\* _get_voice_path and its lookups on every voice spec a request may carry.
Voices == VoiceSpecs \cup KnownVoices

ResolvedVoice == [v \in Voices |-> GetVoicePath(v)]

LookedUp == [v \in Voices |-> VoiceLookups(v)]

Request(c, t, v, f, b) ==
    [caller |-> c, text |-> t, voice |-> v, output_format |-> f, backend |-> b]

\* The (caller, output_format) pairs: generate_audio has no format parameter.
Callers == {<<"generate_audio_stream", NoFormat>>, <<"generate_audio_stream", Wav>>,
            <<"generate_audio", NoFormat>>}

\* One request, the others not submitted: any text with a known voice, or any
\* voice spec with a short text.
DetailRequests ==
    UNION { { Request(c[1], t, <<"a">>, c[2], b) : t \in Texts(b), c \in Callers }
            \cup { Request(c[1], t, v, c[2], b) : t \in ShortTexts, v \in VoiceSpecs, c \in Callers }
          : b \in {KokoroV1, Legacy} }

\* The load scenario: NumReq streaming requests at once, more than the
\* semaphore has permits.  The first streams two segments as wav, the second
\* one segment as wav that does not encode, the others one segment each on
\* which the legacy model gives nothing or raises.
LoadRequest(r) ==
    IF r = 1 THEN Request("generate_audio_stream", <<Plain, Plain>>, <<"a">>, Wav, Legacy)
    ELSE IF r = 2 THEN Request("generate_audio_stream", <<Unenc>>, <<"a", "+", "b">>, Wav, Legacy)
    ELSE IF r % 2 = 1 THEN Request("generate_audio_stream", <<Silent>>, <<"b">>, NoFormat, Legacy)
    ELSE Request("generate_audio_stream", <<Bad>>, <<"b", "+", "a">>, NoFormat, Legacy)

\* The pair scenario: generate_audio_stream in raw mode and generate_audio on
\* the same short text, voice and backend, side by side.
PairTexts == TextsOfLen(0, SegmentKinds) \cup TextsOfLen(1, SegmentKinds)

PairRequests ==
    { [r \in Requests |->
         IF r = 1 THEN Request("generate_audio_stream", t, <<"a">>, NoFormat, b)
         ELSE IF r = 2 THEN Request("generate_audio", t, <<"a">>, NoFormat, b)
         ELSE OffRequest] : t \in PairTexts, b \in {KokoroV1, Legacy} }

\* The crowd scenario: NumReq streaming requests of one segment each, more
\* than the semaphore has permits.  The first gets audio and streams it raw,
\* for the others the legacy model gives nothing or raises.
CrowdRequest(r) ==
    IF r = 1 THEN Request("generate_audio_stream", <<Plain>>, <<"a">>, NoFormat, Legacy)
    ELSE IF r % 2 = 1 THEN Request("generate_audio_stream", <<Silent>>, <<"b">>, NoFormat, Legacy)
    ELSE Request("generate_audio_stream", <<Bad>>, <<"a">>, NoFormat, Legacy)

InitRest ==
    /\ pc = [r \in Requests |-> IF req[r].caller = "off" THEN "Off" ELSE "Start"]
    /\ permits = N
    /\ voice_res = [r \in Requests |-> NoVoice]
    /\ scratch = {}
    /\ idx = [r \in Requests |-> 0]
    /\ chunk_index = [r \in Requests |-> 0]
    /\ call = [r \in Requests |-> NoCall]
    /\ emitted = [r \in Requests |-> <<>>]
    /\ normalizer = [r \in Requests |-> NoNormalizer]
    /\ raised = [r \in Requests |-> {}]
    /\ calls = [r \in Requests |-> <<>>]
    /\ holds = [r \in Requests |-> 0]
    /\ lookups = [r \in Requests |-> <<>>]
    /\ err = [r \in Requests |-> ""]
    /\ result = [r \in Requests |-> NoResult]

Init ==
    /\ \/ \E d \in DetailRequests :
             req = [r \in Requests |-> IF r = 1 THEN d ELSE OffRequest]
       \/ req = [r \in Requests |-> LoadRequest(r)]
       \/ req \in PairRequests
    /\ InitRest

\* ------------------------------------------------------------------ helpers

Text(r) == req[r].text

Format(r) == StreamFormat(req[r])

\* The segment the call in progress works on.
Segment(r) == Text(r)[call[r].seg]

\* What the model does next in the call in progress.
ModelEvent(r) == ModelScript(Segment(r), req[r].backend)[call[r].sub + 1]

\* When the stream ends normally: generate_audio goes on with what it collected.
EndResult(r, chunks) ==
    IF req[r].caller = "generate_audio" THEN GenerateAudio(chunks) ELSE NoResult

\* When the stream raises: generate_audio logs and raises the same.
FailResult(r, error) ==
    IF req[r].caller = "generate_audio" THEN Raised(error) ELSE NoResult

\* __aexit__ of `async with self._chunk_semaphore`.
ExitBlock(r, exit) ==
    /\ permits' = IF ReleasesOn(exit) THEN Release(permits) ELSE permits
    /\ holds' = [holds EXCEPT ![r] = IF ReleasesOn(exit) THEN @ - 1 ELSE @]

\* The exit of `async with self._chunk_semaphore` of a call that held a permit,
\* and where generate_audio_stream goes from there: to the next segment, or,
\* after the finalization call, to its end.
Leave(r) ==
    /\ ExitBlock(r, "return")
    /\ call' = [call EXCEPT ![r] = NoCall]
    /\ IF call[r].is_last
       THEN /\ pc' = [pc EXCEPT ![r] = "Done"]
            /\ result' = [result EXCEPT ![r] = EndResult(r, emitted[r])]
       ELSE /\ pc' = [pc EXCEPT ![r] = "Segmenting"]
            /\ UNCHANGED result

\* An exception no handler catches: the permit is released on the way out and
\* generate_audio_stream raises it.
Escape(r, error) ==
    /\ ExitBlock(r, "Exception")
    /\ call' = [call EXCEPT ![r] = NoCall]
    /\ pc' = [pc EXCEPT ![r] = "Failed"]
    /\ err' = [err EXCEPT ![r] = error]
    /\ result' = [result EXCEPT ![r] = FailResult(r, error)]

\* ------------------------------------------------------------------ actions

\* generate_audio_stream up to smart_split: get_backend, _get_voice_path.
ResolveVoice(r) ==
    /\ pc[r] = "Start"
    /\ normalizer' = [normalizer EXCEPT ![r].id = NewNormalizer(r)]
    /\ lookups' = [lookups EXCEPT ![r] = LookedUp[req[r].voice]]
    /\ LET res == ResolvedVoice[req[r].voice]
       IN  IF res.ok
           THEN /\ voice_res' = [voice_res EXCEPT ![r] = [name |-> res.name, path |-> res.path]]
                /\ scratch' = IF res.saved = NoTensor THEN scratch
                              ELSE scratch \cup {[path |-> res.path, tensor |-> res.saved]}
                /\ pc' = [pc EXCEPT ![r] = "Segmenting"]
                /\ UNCHANGED <<err, result>>
           ELSE /\ pc' = [pc EXCEPT ![r] = "Failed"]
                /\ err' = [err EXCEPT ![r] = res.error]
                /\ result' = [result EXCEPT ![r] = FailResult(r, res.error)]
                /\ UNCHANGED <<voice_res, scratch>>
    /\ UNCHANGED <<req, permits, holds, idx, chunk_index, call, emitted, raised, calls>>

\* smart_split yields the next segment and _process_chunk is called on it.
NextSegment(r) ==
    /\ pc[r] = "Segmenting"
    /\ idx[r] < Len(Text(r))
    /\ LET k == SegmentNo(idx[r], Len(Text(r)))
       IN  /\ Text(r)[k] # Broken
           /\ call' = [call EXCEPT ![r] = [seg |-> k, is_first |-> IsFirst(chunk_index[r]),
                                          is_last |-> FALSE, sub |-> 0]]
           /\ calls' = [calls EXCEPT ![r] = Append(@, k)]
    /\ idx' = [idx EXCEPT ![r] = @ + 1]
    /\ pc' = [pc EXCEPT ![r] = "Acquire"]
    /\ UNCHANGED <<req, lookups, permits, holds, voice_res, scratch, chunk_index, emitted, normalizer,
                   raised, err, result>>

\* smart_split raises while producing the next segment: outside the loop's
\* try, so the outer handler logs and raises.
SegmenterRaise(r) ==
    /\ pc[r] = "Segmenting"
    /\ idx[r] < Len(Text(r))
    /\ Text(r)[SegmentNo(idx[r], Len(Text(r)))] = Broken
    /\ pc' = [pc EXCEPT ![r] = "Failed"]
    /\ err' = [err EXCEPT ![r] = "SegmenterError"]
    /\ result' = [result EXCEPT ![r] = FailResult(r, "SegmenterError")]
    /\ UNCHANGED <<req, lookups, permits, holds, voice_res, scratch, idx, chunk_index, call, emitted,
                   normalizer, raised, calls>>

\* smart_split is exhausted and chunk_index > 0: the finalization call.
Finalize(r) ==
    /\ pc[r] = "Segmenting"
    /\ idx[r] = Len(Text(r))
    /\ ShouldFinalize(chunk_index[r])
    /\ call' = [call EXCEPT ![r] = [seg |-> 0, is_first |-> FALSE, is_last |-> TRUE,
                                   sub |-> 0]]
    /\ calls' = [calls EXCEPT ![r] = Append(@, 0)]
    /\ pc' = [pc EXCEPT ![r] = "Acquire"]
    /\ UNCHANGED <<req, lookups, permits, holds, voice_res, scratch, idx, chunk_index, emitted, normalizer,
                   raised, err, result>>

\* smart_split is exhausted and nothing was emitted: the stream ends.
Finish(r) ==
    /\ pc[r] = "Segmenting"
    /\ idx[r] = Len(Text(r))
    /\ ~ShouldFinalize(chunk_index[r])
    /\ pc' = [pc EXCEPT ![r] = "Done"]
    /\ result' = [result EXCEPT ![r] = EndResult(r, emitted[r])]
    /\ UNCHANGED <<req, lookups, permits, holds, voice_res, scratch, idx, chunk_index, call, emitted,
                   normalizer, raised, calls, err>>

\* async with self._chunk_semaphore, and the call's body up to its first
\* suspension: the raw finalization marker is yielded, the finalization
\* convert_audio or the model is awaited, or an empty segment returns at once.
Acquire(r) ==
    /\ pc[r] = "Acquire"
    /\ CanAcquire(permits)
    /\ IF call[r].is_last
       THEN /\ permits' = permits - 1
            /\ holds' = [holds EXCEPT ![r] = @ + 1]
            /\ IF Format(r) = NoFormat
               THEN /\ emitted' = [emitted EXCEPT ![r] =
                                     Append(@, Unit(0, FALSE, TRUE, "ndarray", <<>>))]
                    /\ pc' = [pc EXCEPT ![r] = "Yield"]
               ELSE /\ pc' = [pc EXCEPT ![r] = "Encode"]
                    /\ UNCHANGED emitted
            /\ UNCHANGED call
       ELSE IF Segment(r) = EmptySeg
       THEN /\ pc' = [pc EXCEPT ![r] = "Segmenting"]
            /\ call' = [call EXCEPT ![r] = NoCall]
            /\ permits' = IF ReleasesOn("return") THEN Release(permits - 1) ELSE permits - 1
            /\ holds' = [holds EXCEPT ![r] = IF ReleasesOn("return") THEN @ ELSE @ + 1]
            /\ UNCHANGED emitted
       ELSE /\ permits' = permits - 1
            /\ holds' = [holds EXCEPT ![r] = @ + 1]
            /\ pc' = [pc EXCEPT ![r] = "Model"]
            /\ UNCHANGED <<call, emitted>>
    /\ UNCHANGED <<req, lookups, voice_res, scratch, idx, chunk_index, normalizer, raised, calls,
                   err, result>>

\* The model hands over audio: the legacy backend's one buffer, or the next
\* sub-chunk of the text-native backend.  Raw mode yields it; otherwise
\* convert_audio is awaited.
ModelAudio(r) ==
    /\ pc[r] = "Model"
    /\ ModelEvent(r) = "audio"
    /\ call' = [call EXCEPT ![r].sub = @ + 1]
    /\ IF Format(r) = NoFormat
       THEN /\ emitted' = [emitted EXCEPT ![r] =
                             Append(@, Unit(call[r].seg, call[r].is_first, call[r].is_last,
                                            "ndarray", RawAudio(call[r].seg, call[r].sub + 1)))]
            /\ pc' = [pc EXCEPT ![r] = "Yield"]
       ELSE /\ pc' = [pc EXCEPT ![r] = "Encode"]
            /\ UNCHANGED emitted
    /\ UNCHANGED <<req, lookups, permits, holds, voice_res, scratch, idx, chunk_index, normalizer, raised,
                   calls, err, result>>

\* The text-native backend streams None.  In raw mode _process_chunk yields
\* it and generate_audio_stream logs and does not pass it on; with a format
\* set it goes to convert_audio.
KokoroNone(r) ==
    /\ pc[r] = "Model"
    /\ req[r].backend = KokoroV1
    /\ ModelEvent(r) = "none"
    /\ call' = [call EXCEPT ![r].sub = @ + 1]
    /\ pc' = [pc EXCEPT ![r] = IF Format(r) = NoFormat THEN "Model" ELSE "Encode"]
    /\ UNCHANGED <<req, lookups, permits, holds, voice_res, scratch, idx, chunk_index, emitted,
                   normalizer, raised, calls, err, result>>

\* The text-native backend's stream ends: the call ends.
KokoroEnd(r) ==
    /\ pc[r] = "Model"
    /\ req[r].backend = KokoroV1
    /\ ModelEvent(r) = "end"
    /\ Leave(r)
    /\ UNCHANGED <<req, lookups, voice_res, scratch, idx, chunk_index, emitted, normalizer, raised,
                   calls, err>>

\* The legacy backend returns None or an empty buffer: logged, the call returns.
LegacyNothing(r) ==
    /\ pc[r] = "Model"
    /\ req[r].backend = Legacy
    /\ ModelEvent(r) = "none"
    /\ Leave(r)
    /\ UNCHANGED <<req, lookups, voice_res, scratch, idx, chunk_index, emitted, normalizer, raised,
                   calls, err>>

\* The model (or load_voice) raises: _process_chunk's handler logs it.
ModelRaise(r) ==
    /\ pc[r] = "Model"
    /\ ModelEvent(r) = "raise"
    /\ IF CatchesException("RuntimeError")
       THEN /\ raised' = [raised EXCEPT ![r] = @ \cup {call[r].seg}]
            /\ Leave(r)
            /\ UNCHANGED err
       ELSE /\ Escape(r, "ModelError")
            /\ UNCHANGED raised
    /\ UNCHANGED <<req, lookups, voice_res, scratch, idx, chunk_index, emitted, normalizer, calls>>

\* convert_audio returns: the encoded chunk, or the trailer, is yielded.
ConvertOk(r) ==
    /\ pc[r] = "Encode"
    /\ IF call[r].is_last THEN TRUE ELSE Encodable(Segment(r), call[r].sub)
    /\ emitted' = [emitted EXCEPT ![r] =
         Append(@, IF call[r].is_last
                   THEN Unit(0, FALSE, TRUE, "bytes", ConvertAudio(DummyAudio, FALSE, TRUE))
                   ELSE Unit(call[r].seg, call[r].is_first, call[r].is_last, "bytes",
                             ConvertAudio(RawAudio(call[r].seg, call[r].sub),
                                          call[r].is_first, call[r].is_last)))]
    /\ normalizer' = [normalizer EXCEPT ![r].uses =
                         Append(@, [id |-> normalizer[r].id, seg |-> call[r].seg])]
    /\ pc' = [pc EXCEPT ![r] = "Yield"]
    /\ UNCHANGED <<req, lookups, permits, holds, voice_res, scratch, idx, chunk_index, call, raised, calls,
                   err, result>>

\* convert_audio raises.  For a chunk the handler around it logs and drops the
\* chunk: the text-native loop goes on, the legacy call ends.  In the
\* finalization call it reaches _process_chunk's handler.
ConvertFail(r) ==
    /\ pc[r] = "Encode"
    /\ IF call[r].is_last THEN TRUE ELSE ~Encodable(Segment(r), call[r].sub)
    /\ normalizer' = [normalizer EXCEPT ![r].uses =
                         Append(@, [id |-> normalizer[r].id, seg |-> call[r].seg])]
    /\ IF ~CatchesException("ValueError")
       THEN /\ Escape(r, "EncodeError")
            /\ UNCHANGED raised
       ELSE IF call[r].is_last
       THEN /\ raised' = [raised EXCEPT ![r] = @ \cup {0}]
            /\ Leave(r)
            /\ UNCHANGED err
       ELSE IF ~LoopContinues(req[r].backend)
       THEN /\ Leave(r)
            /\ UNCHANGED <<raised, err>>
       ELSE /\ pc' = [pc EXCEPT ![r] = "Model"]
            /\ UNCHANGED <<permits, holds, call, raised, err, result>>
    /\ UNCHANGED <<req, lookups, voice_res, scratch, idx, chunk_index, emitted, calls>>

\* The caller asks for the next unit: generate_audio_stream counts the chunk
\* and resumes the call, which ends (finalization, legacy) or awaits the next
\* sub-chunk.
Resume(r) ==
    /\ pc[r] = "Yield"
    /\ IF call[r].is_last
       THEN /\ Leave(r)
            /\ UNCHANGED chunk_index
       ELSE /\ chunk_index' = [chunk_index EXCEPT ![r] = @ + 1]
            /\ IF req[r].backend = Legacy
               THEN Leave(r)
               ELSE /\ pc' = [pc EXCEPT ![r] = "Model"]
                    /\ UNCHANGED <<permits, holds, call, result>>
    /\ UNCHANGED <<req, lookups, voice_res, scratch, idx, emitted, normalizer, raised, calls, err>>

\* The streaming caller stops iterating and drops the stream while a unit is
\* with it: generate_audio_stream and the _process_chunk call stay suspended
\* at their yields, the call inside the semaphore's block.
Abandon(r) ==
    /\ pc[r] = "Yield"
    /\ req[r].caller = "generate_audio_stream"
    /\ pc' = [pc EXCEPT ![r] = "Abandoned"]
    /\ UNCHANGED <<req, lookups, permits, holds, voice_res, scratch, idx, chunk_index, call,
                   emitted, normalizer, raised, calls, err, result>>

\* The event loop closes the dropped generators (the asyncgen finalizer hook
\* schedules aclose()): GeneratorExit is thrown in at the yield of each, is no
\* Exception so no handler catches it, and leaves the semaphore's block.
CloseAbandoned(r) ==
    /\ pc[r] = "Abandoned"
    /\ ExitBlock(r, "GeneratorExit")
    /\ call' = [call EXCEPT ![r] = NoCall]
    /\ pc' = [pc EXCEPT ![r] = "Closed"]
    /\ UNCHANGED <<req, lookups, voice_res, scratch, idx, chunk_index, emitted, normalizer,
                   raised, calls, err, result>>

Next ==
    \E r \in Requests :
        \/ ResolveVoice(r)
        \/ NextSegment(r)
        \/ SegmenterRaise(r)
        \/ Finalize(r)
        \/ Finish(r)
        \/ Acquire(r)
        \/ ModelAudio(r)
        \/ KokoroNone(r)
        \/ KokoroEnd(r)
        \/ LegacyNothing(r)
        \/ ModelRaise(r)
        \/ ConvertOk(r)
        \/ ConvertFail(r)
        \/ Resume(r)
        \/ Abandon(r)
        \/ CloseAbandoned(r)

Spec == Init /\ [][Next]_vars

\* The steps a request takes when the event loop runs it and its caller keeps
\* asking for the next unit: everything but the caller dropping the stream.
Run(r) ==
    \/ ResolveVoice(r) \/ NextSegment(r) \/ SegmenterRaise(r) \/ Finalize(r)
    \/ Finish(r) \/ Acquire(r) \/ ModelAudio(r) \/ KokoroNone(r) \/ KokoroEnd(r)
    \/ LegacyNothing(r) \/ ModelRaise(r) \/ ConvertOk(r) \/ ConvertFail(r)
    \/ Resume(r)

\* The event loop does not stop while some task can run: an awaited model or
\* encoder call returns or raises, a caller that has not dropped its stream
\* asks for the next unit, a waiter on the semaphore is woken when a permit
\* is free, and a dropped generator is closed by the loop's finalizer hook.
Progress == \E r \in Requests : Run(r) \/ CloseAbandoned(r)

\* The crowd and the pairs: contention for the semaphore, and every kind of
\* segment on both backends.
FairInit ==
    /\ \/ req = [r \in Requests |-> CrowdRequest(r)]
       \/ req \in PairRequests
    /\ InitRest

FairSpec == FairInit /\ [][Next]_vars /\ WF_vars(Progress)

\* ------------------------------------------------------------------ claims

Active == {r \in Requests : req[r].caller # "off"}

\* A call is inside the section `async with self._chunk_semaphore` guards.
Inside(r) == pc[r] \in {"Model", "Encode", "Yield", "Abandoned"}

InsideCount == Cardinality({r \in Requests : Inside(r)})

\* The units of real chunks, and the finalization units, a request emitted.
RealUnits(r) == {k \in 1..Len(emitted[r]) : ~emitted[r][k].last}

FinalUnits(r) == {k \in 1..Len(emitted[r]) : emitted[r][k].last}

FirstUnits(r) == {k \in 1..Len(emitted[r]) : emitted[r][k].first}

FinalCalls(r) == {k \in 1..Len(calls[r]) : calls[r][k] = 0}

\* The voice specs of VoiceSpecs that name known voices only, two or more when
\* joined by '+'.
ResolvableSpecs ==
    { <<"a">>, <<"b">>, <<"a", "+", "b">>, <<"b", "+", "a">>, <<"a", " ", "+", "b">> }

\* C1: at no time are more than N = 4 _process_chunk calls inside the section
\* the semaphore guards, over all requests; a call that reaches the semaphore
\* while N calls are inside cannot enter (it stays suspended at the acquire).
C1_AtMostNInside ==
    /\ InsideCount <= N
    /\ \A r \in Requests :
         (pc[r] = "Acquire" /\ InsideCount = N) => ~ENABLED Acquire(r)

C1_Witness == \E r \in Requests : pc[r] = "Acquire" /\ InsideCount = N

\* C2 (as claimed): a stream that ended having emitted something emitted
\* exactly one unit produced with is_first = true, and that unit came first.
C2_ExactlyOneFirst ==
    \A r \in Active :
        (pc[r] = "Done" /\ emitted[r] # <<>>) =>
            /\ Cardinality(FirstUnits(r)) = 1
            /\ emitted[r][1].first

\* C3 (as claimed): a stream with a format set that ended having emitted a
\* real chunk holds exactly one finalization unit, in last place, and no real
\* chunk was encoded with is_last_chunk = true.
C3_ExactlyOneFinal ==
    \A r \in Active :
        (pc[r] = "Done" /\ Format(r) # NoFormat /\ RealUnits(r) # {}) =>
            /\ Cardinality(FinalUnits(r)) = 1
            /\ emitted[r][Len(emitted[r])].last
            /\ \A k \in RealUnits(r) :
                 \A j \in 1..Len(emitted[r][k].data) : emitted[r][k].data[j].t # "trl"

\* C3 (amended): with a format set there is never more than one finalization
\* unit, it is in last place and the only unit with a trailer; a stream that
\* ended having emitted a real chunk holds it exactly when the finalization
\* convert_audio did not raise.
C3_FinalUnlessEncoderRaises ==
    \A r \in Active :
        Format(r) # NoFormat =>
            /\ Cardinality(FinalUnits(r)) <= 1
            /\ FinalUnits(r) \subseteq {Len(emitted[r])}
            /\ \A k \in 1..Len(emitted[r]) :
                 (\E j \in 1..Len(emitted[r][k].data) : emitted[r][k].data[j].t = "trl")
                    <=> k \in FinalUnits(r)
            /\ (pc[r] = "Done" /\ RealUnits(r) # {}) =>
                 (Cardinality(FinalUnits(r)) = 1 <=> 0 \notin raised[r])

C3_Witness ==
    \E r \in Active :
        /\ pc[r] = "Done" /\ Format(r) # NoFormat
        /\ Cardinality(RealUnits(r)) >= 2
        /\ FinalUnits(r) = {Len(emitted[r])}

\* C4: the finalization call is made at most once, only after smart_split is
\* exhausted and every segment's call is over, and only if a unit was emitted
\* before; a stream that ended made it exactly if it had emitted a unit; with
\* no unit emitted there is no finalization call and no finalization unit.
C4_FinalizeIffEmitted ==
    \A r \in Active :
        /\ Cardinality(FinalCalls(r)) <= 1
        /\ FinalCalls(r) # {} =>
             /\ idx[r] = Len(Text(r))
             /\ FinalCalls(r) = {Len(calls[r])}
             /\ RealUnits(r) # {}
        /\ pc[r] = "Done" => (FinalCalls(r) # {} <=> RealUnits(r) # {})
        /\ RealUnits(r) = {} => (FinalCalls(r) = {} /\ FinalUnits(r) = {})

C4_Witness ==
    \E r \in Active :
        pc[r] = "Done" /\ Len(Text(r)) >= 2 /\ Cardinality(FinalCalls(r)) = 1

CalledSegments(r) == {calls[r][k] : k \in 1..Len(calls[r])}

EmittedSegments(r) == {emitted[r][k].seg : k \in 1..Len(emitted[r])}

\* The segments on which the model raised into _process_chunk's handler.
ModelFailures(r) == raised[r] \ {0}

\* C5 (as claimed): the model raising on segment k is contained: the stream
\* does not raise the model's exception, and once it has ended every later
\* segment was synthesized and its audio emitted, and the finalization unit
\* was emitted if any unit was.
C5_ModelFailureContained ==
    \A r \in Active :
        /\ err[r] \in {"", "InvalidVoiceSpec", "VoiceNotFound", "SegmenterError"}
        /\ \A k \in ModelFailures(r) :
             pc[r] = "Done" =>
                /\ \A j \in (k + 1)..Len(Text(r)) :
                     /\ j \in CalledSegments(r)
                     /\ Text(r)[j] = Plain => j \in EmittedSegments(r)
                /\ RealUnits(r) # {} => FinalUnits(r) # {}

\* C5 (amended): as claimed, but the finalization unit is emitted only if the
\* finalization convert_audio does not raise itself (the finalization call is
\* made either way).
C5_ContainedUnlessTrailerFails ==
    \A r \in Active :
        /\ err[r] \in {"", "InvalidVoiceSpec", "VoiceNotFound", "SegmenterError"}
        /\ \A k \in ModelFailures(r) :
             pc[r] = "Done" =>
                /\ \A j \in (k + 1)..Len(Text(r)) :
                     /\ j \in CalledSegments(r)
                     /\ Text(r)[j] = Plain => j \in EmittedSegments(r)
                /\ RealUnits(r) # {} =>
                     /\ FinalCalls(r) # {}
                     /\ FinalUnits(r) # {} <=> 0 \notin raised[r]

\* The spec's scenario: the model raises on segment 2 of 3; chunks of segments
\* 1 and 3 and the finalization unit are emitted.
C5_Witness ==
    \E r \in Active :
        /\ pc[r] = "Done" /\ Len(Text(r)) = 3 /\ raised[r] = {2}
        /\ {1, 3} \subseteq EmittedSegments(r)
        /\ FinalUnits(r) # {}

\* C6 (as claimed): for the same text, voice and backend, what generate_audio
\* returns is the concatenation of the units generate_audio_stream emits in
\* raw mode.
C6_AggregateIsRawStream ==
    \A r1, r2 \in Active :
        ( /\ req[r1].caller = "generate_audio_stream" /\ req[r1].output_format = NoFormat
          /\ req[r2].caller = "generate_audio"
          /\ req[r1].text = req[r2].text /\ req[r1].voice = req[r2].voice
          /\ req[r1].backend = req[r2].backend
          /\ pc[r1] = "Done" /\ pc[r2] = "Done" /\ emitted[r1] # <<>> )
        => result[r2] = Returned("ndarray", Concatenate(emitted[r1]))

\* C7: on an empty text with a voice that resolves, the stream makes no
\* _process_chunk call (so takes no permit), emits nothing and ends without
\* an exception; generate_audio then raises ValueError (EmptyResult).
C7_EmptyText ==
    \A r \in Active :
        (Text(r) = <<>> /\ req[r].voice \in ResolvableSpecs) =>
            /\ emitted[r] = <<>> /\ calls[r] = <<>> /\ err[r] = ""
            /\ pc[r] \in {"Start", "Segmenting", "Done"}
            /\ pc[r] = "Done" =>
                 result[r] = IF req[r].caller = "generate_audio"
                             THEN Raised("ValueError") ELSE NoResult

C7_Witness ==
    \E r \in Active :
        /\ Text(r) = <<>> /\ pc[r] = "Done" /\ req[r].caller = "generate_audio"
        /\ result[r].status = "raised"

\* C8 (as claimed): generate_audio raises only ValueError (EmptyResult), and
\* only if the stream emitted nothing; if the stream emitted a real chunk it
\* returns a buffer: the one unit, or the concatenation of the units.
C8_AggregateReturnsBuffer ==
    \A r \in Active :
        (req[r].caller = "generate_audio" /\ pc[r] = "Done") =>
            /\ result[r].status = "raised" =>
                 (result[r].error = "ValueError" /\ emitted[r] = <<>>)
            /\ RealUnits(r) # {} =>
                 /\ result[r].status = "returned"
                 /\ result[r].data = Concatenate(emitted[r])

\* C9: a request calls _process_chunk on its segments in the segmenter's
\* order, one call at a time, the finalization call last; every unit it emits
\* comes from the call in progress, so units appear in segment order with the
\* finalization unit last, whatever the other requests do in between.
C9_SegmentOrder ==
    \A r \in Active :
        /\ \A i, j \in 1..Len(calls[r]) :
             i < j => (calls[r][i] # 0 /\ (calls[r][j] # 0 => calls[r][i] < calls[r][j]))
        /\ \A i, j \in 1..Len(emitted[r]) :
             i < j => /\ emitted[r][i].seg # 0
                      /\ emitted[r][j].seg # 0 => emitted[r][i].seg <= emitted[r][j].seg
        /\ EmittedSegments(r) \subseteq CalledSegments(r)
        /\ pc[r] \in {"Acquire", "Model", "Encode", "Yield"} =>
             (calls[r] # <<>> /\ call[r].seg = calls[r][Len(calls[r])])

\* A request has emitted units of two segments in order while another request
\* is in the middle of a call.
C9_Witness ==
    \E r, q \in Active :
        /\ r # q /\ Inside(q)
        /\ Len(emitted[r]) >= 2
        /\ emitted[r][1].seg = 1 /\ emitted[r][2].seg = 2

\* C10: if the voice does not resolve, generate_audio_stream raises the
\* resolver's error before anything else: no segment is read, no
\* _process_chunk call is made (no permit taken), nothing is emitted.
C10_VoiceFailureStopsStream ==
    \A r \in Active :
        req[r].voice \notin ResolvableSpecs =>
            /\ pc[r] \in {"Start", "Failed"}
            /\ idx[r] = 0 /\ calls[r] = <<>> /\ emitted[r] = <<>>
            /\ pc[r] = "Failed" =>
                 /\ err[r] \in {"InvalidVoiceSpec", "VoiceNotFound"}
                 /\ req[r].caller = "generate_audio" => result[r] = Raised(err[r])

C10_Witness ==
    \E r \in Active :
        /\ pc[r] = "Failed" /\ err[r] = "InvalidVoiceSpec"
        /\ req[r].text # <<>>

\* The scratch path a combined voice is saved under: tempdir/{voice}.pt.
CombinedPath(voice) == <<"tmp">> \o voice

\* The specs of VoiceSpecs with a '+' and fewer than two names around it.
InvalidSpecs == { <<"a", "+">>, <<"+", "b">>, <<"+">>, <<"a", "+", " ">> }

\* C11: once _get_voice_path has run, a spec with a '+' and fewer than two
\* non-empty trimmed names has failed with InvalidVoiceSpec and no name was
\* looked up; a spec with a '+' and two names or more was handled as combined
\* (its first name looked up on its own, the mean saved when it resolves); a
\* spec without '+' was looked up whole and nothing was saved for it.
C11_CombinedIffPlus ==
    \A r \in Active :
        pc[r] # "Start" =>
            LET v == req[r].voice
                plus == \E k \in 1..Len(v) : v[k] = "+"
                saved == \E e \in scratch : e.path = CombinedPath(v)
            IN  /\ v \in InvalidSpecs =>
                     /\ pc[r] = "Failed" /\ err[r] = "InvalidVoiceSpec"
                     /\ lookups[r] = <<>> /\ ~saved
                /\ (plus /\ v \notin InvalidSpecs) =>
                     /\ err[r] # "InvalidVoiceSpec"
                     /\ lookups[r] # <<>> /\ lookups[r][1] \in {<<"a">>, <<"b">>}
                     /\ pc[r] # "Failed" => saved
                /\ ~plus =>
                     /\ lookups[r] = <<v>> /\ ~saved
                     /\ err[r] # "InvalidVoiceSpec"
                     /\ pc[r] # "Failed" => voice_res[r] = [name |-> v, path |-> <<"voices">> \o v]

C11_Witness ==
    \E r \in Active :
        /\ req[r].voice = <<"a", "+", " ">>
        /\ pc[r] = "Failed" /\ lookups[r] = <<>>

\* C12: the combined embeddings saved for "a+b" and for "b+a" are the same,
\* for any two known voices a and b.
C12_OrderIndependent ==
    \A a, b \in KnownVoices : \A e1, e2 \in scratch :
        ( /\ e1.path = CombinedPath(a \o <<"+">> \o b)
          /\ e2.path = CombinedPath(b \o <<"+">> \o a) )
        => e1.tensor = e2.tensor

C12_Witness ==
    \E e1, e2 \in scratch :
        /\ e1.path = CombinedPath(<<"a", "+", "b">>)
        /\ e2.path = CombinedPath(<<"b", "+", "a">>)

\* C13: a request whose caller dropped the stream while a call was suspended
\* at a yield inside the semaphore's block gives the permit back in the end
\* (from some point on no dropped request holds a permit), and no request is
\* left waiting on the semaphore.
C13_AbandonedPermitReleased ==
    <>[](\A r \in Requests :
            /\ pc[r] \in {"Abandoned", "Closed"} => holds[r] = 0
            /\ pc[r] # "Acquire")

\* A dropped stream was closed and all N permits are in use by other requests.
C13_Witness ==
    \E r \in Active :
        /\ pc[r] = "Closed" /\ holds[r] = 0
        /\ permits = 0 /\ InsideCount = N

Dropped == \E q \in Requests : pc[q] \in {"Abandoned", "Closed"}

\* C20: unless some caller drops its stream, every request ends, Done or
\* Failed, however many requests contend for the N permits.
C20_EveryRequestEnds ==
    <>(Dropped \/ \A r \in Requests : pc[r] \in {"Off", "Done", "Failed"})

\* More than N requests have all ended and no stream was dropped.
C20_Witness ==
    /\ Cardinality(Active) > N
    /\ \A r \in Active : pc[r] \in {"Done", "Failed"}
    /\ \E r \in Active : Len(calls[r]) = 2

Ended(r) == pc[r] \in {"Off", "Done", "Failed", "Closed"}

\* C14: free permits plus the calls inside the semaphore's block make N in
\* every state, and once every request has ended all N permits are free.
C14_PermitsConserved ==
    /\ permits + InsideCount = N
    /\ (\A r \in Requests : Ended(r)) => permits = N

\* Every request of a full load has ended normally, one after the model raised
\* and one after an encode failure, and all permits are back.
C14_Witness ==
    /\ \A r \in Requests : pc[r] = "Done"
    /\ \E r \in Requests : raised[r] # {}
    /\ \E r \in Requests : normalizer[r].uses # <<>> /\ emitted[r] = <<>>
    /\ permits = N

\* The pieces of model audio that reached the caller: (segment, sub-chunk).
EmittedPieces(r) ==
    UNION { { <<emitted[r][k].seg, emitted[r][k].data[i].sub>> :
                i \in {i \in 1..Len(emitted[r][k].data) :
                         emitted[r][k].data[i].t \in {"f32", "pcm"}} } :
            k \in RealUnits(r) }

\* C15: with a format set, a chunk on which convert_audio raises is dropped and
\* nothing else: no exception reaches the caller, the chunk is not emitted nor
\* counted, the later sub-chunks of its segment and the later segments are
\* synthesized, encoded and emitted.
C15_EncodeFailureDropsOneChunk ==
    \A r \in Active :
        /\ err[r] # "EncodeError"
        /\ pc[r] = "Done" => chunk_index[r] = Cardinality(RealUnits(r))
        /\ (pc[r] = "Done" /\ Format(r) # NoFormat) =>
             \A j \in 1..Len(Text(r)) :
                Text(r)[j] = Unenc =>
                    /\ <<j, 1>> \notin EmittedPieces(r)
                    /\ req[r].backend = KokoroV1 =>
                         \A sub \in 2..MaxSub : <<j, sub>> \in EmittedPieces(r)
                    /\ \A i \in (j + 1)..Len(Text(r)) :
                         /\ i \in CalledSegments(r)
                         /\ Text(r)[i] = Plain => <<i, 1>> \in EmittedPieces(r)

C15_Witness ==
    \E r \in Active :
        /\ pc[r] = "Done" /\ Format(r) = Wav /\ req[r].backend = KokoroV1
        /\ Text(r) = <<Unenc, Plain>>
        /\ EmittedPieces(r) = {<<1, sub>> : sub \in 2..MaxSub} \cup {<<2, 1>>}

\* C16: when convert_audio raises in the finalization call, the step that
\* leaves the call ends the request in Done with nothing emitted, nothing
\* raised to the caller and the call's permit given back.
C16_FinalizationFailureContained ==
    [][\A r \in Requests :
          (pc[r] = "Encode" /\ call[r].is_last /\ pc'[r] # "Encode") =>
              \/ /\ pc'[r] = "Yield"
                 /\ Len(emitted'[r]) = Len(emitted[r]) + 1
              \/ /\ pc'[r] = "Done" /\ err'[r] = ""
                 /\ emitted'[r] = emitted[r]
                 /\ holds'[r] = 0 /\ permits' = permits + 1]_vars

C16_Witness ==
    \E r \in Active :
        /\ pc[r] = "Done" /\ 0 \in raised[r]
        /\ RealUnits(r) # {} /\ FinalUnits(r) = {}
        /\ err[r] = "" /\ holds[r] = 0

\* C17: every request has a normalizer of its own from its first step on; each
\* convert_audio call of the request, the finalization one included, is
\* passed that normalizer; two requests are never inside convert_audio with
\* the same normalizer; the calls on a normalizer are in segment order.
C17_NormalizerPerRequest ==
    \A r \in Active :
        /\ pc[r] # "Start" => normalizer[r].id # 0
        /\ \A k \in 1..Len(normalizer[r].uses) : normalizer[r].uses[k].id = normalizer[r].id
        /\ \A i, j \in 1..Len(normalizer[r].uses) :
             i < j => /\ normalizer[r].uses[i].seg # 0
                      /\ normalizer[r].uses[j].seg # 0 =>
                           normalizer[r].uses[i].seg <= normalizer[r].uses[j].seg
        /\ \A q \in Active \ {r} :
             /\ (pc[r] # "Start" /\ pc[q] # "Start") => normalizer[r].id # normalizer[q].id
             /\ (pc[r] = "Encode" /\ pc[q] = "Encode") => normalizer[r].id # normalizer[q].id

\* Two requests are inside convert_audio at once, one of them for the second
\* time.
C17_Witness ==
    \E r, q \in Active :
        /\ r # q /\ pc[r] = "Encode" /\ pc[q] = "Encode"
        /\ normalizer[r].uses # <<>>

\* C18 (as claimed): a request whose stream raised to its caller has emitted
\* no unit.
C18_FailedOnlyBeforeFirstUnit ==
    \A r \in Active : pc[r] = "Failed" => emitted[r] = <<>>

\* C19: a request holds no permit or one, one exactly while a call of it is
\* inside the semaphore's block, and none when a call of it arrives at the
\* semaphore.
C19_OnePermitPerRequest ==
    \A r \in Requests :
        /\ holds[r] \in {0, 1}
        /\ holds[r] = 1 <=> Inside(r)
        /\ pc[r] = "Acquire" => holds[r] = 0

\* A request is inside its second call, after leaving the first.
C19_Witness ==
    \E r \in Active :
        /\ Len(calls[r]) >= 2 /\ Inside(r) /\ holds[r] = 1

====
